---- MODULE Spec2Model ----
(***************************************************************************)
(* Model of the calculated-column engine of src/src/columnDataUtils.tsx    *)
(* (ColumnCalculation, ColumnAggregator, ColumnData, DataTable) and of the *)
(* render step of src/src/DynamicTable.tsx that drives it.                 *)
(*                                                                         *)
(* A JavaScript string is a sequence of lexemes.  A lexeme is one          *)
(* character ("1", "+", "#", "\n", "A" ...), or one of the words "ERROR",   *)
(* "NaN", "Infinity", "constructor", NativeCode that no operation of the   *)
(* program ever splits.                                                    *)
(***************************************************************************)
EXTENDS Integers, Sequences, FiniteSets, TLC

\* ------------------------------------------------------------------ bounds
MaxCols == 3          \* columns a table holds at most
MaxCompiles == 2      \* compile() calls counted on an unchanged table
MaxExprLen == 6       \* length of the expressions given to ColumnCalculation
MaxAggRows == 2       \* rows of the mappings given to ColumnAggregator
MaxListLen == 4       \* columns the caller's column list holds at most

\* ------------------------------------------------------- JavaScript values
Num(n) == [t |-> "number", n |-> n, s |-> <<>>]
PosInf == [t |-> "Infinity", n |-> 0, s |-> <<>>]
NegInf == [t |-> "-Infinity", n |-> 0, s |-> <<>>]
NaN == [t |-> "NaN", n |-> 0, s |-> <<>>]
Str(s) == [t |-> "string", n |-> 0, s |-> s]
Undefined == [t |-> "undefined", n |-> 0, s |-> <<>>]
\* an inherited method of Object.prototype, read through an object literal
InheritedFunction == [t |-> "function", n |-> 0, s |-> <<>>]

Digits == <<"0", "1", "2", "3", "4", "5", "6", "7", "8", "9">>
DigitSet == {Digits[i] : i \in 1..10}
DigitValue(c) == (CHOOSE i \in 1..10 : Digits[i] = c) - 1
LineTerminators == {"\n"}
ERROR == <<"ERROR">>
NativeCode == "function Object() { [native code] }"

\* the own-property names every object literal inherits from Object.prototype
ObjectPrototypeKeys == {<<"constructor">>}

RECURSIVE NatToString(_)
NatToString(n) ==
  IF n < 10 THEN <<Digits[n + 1]>>
  ELSE NatToString(n \div 10) \o <<Digits[(n % 10) + 1]>>

\* String(v) and v.toString() of a JavaScript value
JsString(v) ==
  CASE v.t = "string" -> v.s
    [] v.t = "number" -> IF v.n < 0 THEN <<"-">> \o NatToString(-v.n)
                         ELSE NatToString(v.n)
    [] v.t = "Infinity" -> <<"Infinity">>
    [] v.t = "-Infinity" -> <<"-", "Infinity">>
    [] v.t = "NaN" -> <<"NaN">>
    [] v.t = "function" -> <<NativeCode>>
    [] OTHER -> <<"undefined">>

AllDigits(s) == Len(s) > 0 /\ \A i \in 1..Len(s) : s[i] \in DigitSet

RECURSIVE DigitsToNat(_)
DigitsToNat(s) ==
  IF Len(s) = 0 THEN 0
  ELSE 10 * DigitsToNat(SubSeq(s, 1, Len(s) - 1)) + DigitValue(s[Len(s)])

\* Number(v): the numeric coercion of a row value
StringToNumber(s) ==
  IF s = <<>> THEN Num(0)
  ELSE IF AllDigits(s) THEN Num(DigitsToNat(s))
  ELSE IF s[1] = "-" /\ AllDigits(Tail(s)) THEN Num(-DigitsToNat(Tail(s)))
  ELSE IF s[1] = "+" /\ AllDigits(Tail(s)) THEN Num(DigitsToNat(Tail(s)))
  ELSE IF s = <<"Infinity">> \/ s = <<"+", "Infinity">> THEN PosInf
  ELSE IF s = <<"-", "Infinity">> THEN NegInf
  ELSE NaN

ToNumber(v) == IF v.t = "string" THEN StringToNumber(v.s) ELSE v

\* a > b on JavaScript numbers (false whenever either side is NaN)
NumGreater(a, b) ==
  CASE a.t = "NaN" \/ b.t = "NaN" -> FALSE
    [] a.t = "Infinity" -> b.t # "Infinity"
    [] a.t = "-Infinity" -> FALSE
    [] b.t = "Infinity" -> FALSE
    [] b.t = "-Infinity" -> TRUE
    [] OTHER -> a.n > b.n

NumLess(a, b) == NumGreater(b, a)

\* a + b on JavaScript numbers
NumAdd(a, b) ==
  CASE a.t = "NaN" \/ b.t = "NaN" -> NaN
    [] a.t = "Infinity" -> IF b.t = "-Infinity" THEN NaN ELSE PosInf
    [] a.t = "-Infinity" -> IF b.t = "Infinity" THEN NaN ELSE NegInf
    [] b.t \in {"Infinity", "-Infinity"} -> b
    [] OTHER -> Num(a.n + b.n)

\* ------------------------------------------------------ ColumnCalculation
\* obj[key] on an object literal: own property, else Object.prototype's
Lookup(obj, key) ==
  IF key \in DOMAIN obj THEN obj[key]
  ELSE IF key \in ObjectPrototypeKeys THEN InheritedFunction
  ELSE Undefined

FirstMarker(expression, i) ==
  IF \E p \in i..Len(expression) : expression[p] = "#"
  THEN CHOOSE p \in i..Len(expression) :
         /\ expression[p] = "#"
         /\ \A k \in i..(p - 1) : expression[k] # "#"
  ELSE 0

\* mutant of RegexMatches: the closing marker of a match opens the next one
RECURSIVE RegexMatchesOverlapping(_, _)
RegexMatchesOverlapping(expression, i) ==
  LET p == FirstMarker(expression, i)
      q == IF p = 0 THEN 0 ELSE FirstMarker(expression, p + 1)
  IN IF p = 0 \/ q = 0 THEN <<>>
     ELSE IF \E k \in (p + 1)..(q - 1) : expression[k] \in LineTerminators
     THEN RegexMatchesOverlapping(expression, p + 1)
     ELSE <<<<p, q>>>> \o RegexMatchesOverlapping(expression, q)

\* the matches of /#(.*?)#/g from index i on, as <<first, last>> index pairs:
\* "." matches no line terminator, so a "#" followed by a line terminator
\* before the next "#" opens no match and the scan resumes right after it
RECURSIVE RegexMatches(_, _)
RegexMatches(expression, i) ==
  LET p == FirstMarker(expression, i)
      q == IF p = 0 THEN 0 ELSE FirstMarker(expression, p + 1)
  IN IF p = 0 \/ q = 0 THEN <<>>
     ELSE IF \E k \in (p + 1)..(q - 1) : expression[k] \in LineTerminators
     THEN RegexMatches(expression, p + 1)
     ELSE <<<<p, q>>>> \o RegexMatches(expression, q + 1)

\* match.replace(/#/g, ''): a match holds exactly its two markers
MatchName(expression, m) == SubSeq(expression, m[1] + 1, m[2] - 1)

extractExpectedVariables(expression) ==
  LET ms == RegexMatches(expression, 1)
  IN {MatchName(expression, ms[k]) : k \in 1..Len(ms)}

\* expression.replace(regex, match => variables[name].toString()):
\* [threw, s]; reading toString of undefined raises a TypeError
RECURSIVE ReplaceMatches(_, _, _, _)
ReplaceMatches(expression, variables, ms, from) ==
  IF Len(ms) = 0
  THEN [threw |-> FALSE, s |-> SubSeq(expression, from, Len(expression))]
  ELSE LET m == Head(ms)
           v == Lookup(variables, MatchName(expression, m))
           rest == ReplaceMatches(expression, variables, Tail(ms), m[2] + 1)
       IN IF v.t = "undefined" \/ rest.threw
          THEN [threw |-> TRUE, s |-> <<>>]
          ELSE [threw |-> FALSE,
                s |-> SubSeq(expression, from, m[1] - 1) \o JsString(v) \o rest.s]

replaceExpressionVariables(expression, variables) ==
  ReplaceMatches(expression, variables, RegexMatches(expression, 1), 1)

\* math.evaluate on the arithmetic the model writes: decimal literals, binary
\* "+" and "*", unary "+".  A well-formed text ends with a digit and has every
\* "*" right after a digit; everything else is a syntax error or an undefined
\* symbol, and the empty text evaluates to undefined.
WellFormed(s) ==
  /\ Len(s) > 0
  /\ \A i \in 1..Len(s) : s[i] \in DigitSet \cup {"+", "*"}
  /\ s[Len(s)] \in DigitSet
  /\ \A i \in 1..Len(s) : s[i] = "*" => (i > 1 /\ s[i - 1] \in DigitSet)

\* value of s[i..] given the sum of the finished terms, the product of the
\* finished factors of the current term and the literal read so far
RECURSIVE EvalFrom(_, _, _, _, _)
EvalFrom(s, i, sum, prod, cur) ==
  IF i > Len(s) THEN sum + prod * cur
  ELSE IF s[i] \in DigitSet
  THEN EvalFrom(s, i + 1, sum, prod, 10 * cur + DigitValue(s[i]))
  ELSE IF s[i] = "*" THEN EvalFrom(s, i + 1, sum, prod * cur, 0)
  ELSE IF i > 1 /\ s[i - 1] \in DigitSet
  THEN EvalFrom(s, i + 1, sum + prod * cur, 1, 0)
  ELSE EvalFrom(s, i + 1, sum, prod, cur)

mathEvaluate(s) ==
  IF s = <<>> THEN [threw |-> FALSE, v |-> Undefined]
  ELSE IF WellFormed(s) THEN [threw |-> FALSE, v |-> Num(EvalFrom(s, 1, 0, 1, 0))]
  ELSE [threw |-> TRUE, v |-> Undefined]

\* ColumnCalculation.calculate with this.expression and this.variables
calculate(expression, variables) ==
  LET replaced == replaceExpressionVariables(expression, variables)
      result == mathEvaluate(replaced.s)
  IN IF replaced.threw \/ result.threw THEN ERROR
     ELSE IF result.v.t = "undefined" THEN ERROR
     ELSE JsString(result.v)

\* ------------------------------------------------------- ColumnAggregator
None == "None"
Max == "Max"
Average == "Average"
Min == "Min"
Sum == "Sum"
ColumnAggregations == {None, Max, Average, Min, Sum}

\* Object.values(rows): integer keys enumerate in ascending order
RECURSIVE ObjectValues(_)
ObjectValues(rows) ==
  IF DOMAIN rows = {} THEN <<>>
  ELSE LET k == CHOOSE k \in DOMAIN rows : \A j \in DOMAIN rows : k <= j
       IN <<rows[k]>> \o ObjectValues([j \in DOMAIN rows \ {k} |-> rows[j]])

RECURSIVE ReduceMax(_, _)
ReduceMax(values, max) ==
  IF values = <<>> THEN max
  ELSE ReduceMax(Tail(values),
                 IF NumGreater(ToNumber(Head(values)), max)
                 THEN ToNumber(Head(values)) ELSE max)

RECURSIVE ReduceMin(_, _)
ReduceMin(values, min) ==
  IF values = <<>> THEN min
  ELSE ReduceMin(Tail(values),
                 IF NumLess(ToNumber(Head(values)), min)
                 THEN ToNumber(Head(values)) ELSE min)

RECURSIVE ReduceSum(_, _)
ReduceSum(values, sum) ==
  IF values = <<>> THEN sum
  ELSE ReduceSum(Tail(values), NumAdd(ToNumber(Head(values)), sum))

\* the fraction digits of r / d by long division, at most k of them (a
\* quotient that does not terminate is cut there, without rounding)
RECURSIVE FractionDigits(_, _, _)
FractionDigits(r, d, k) ==
  IF r = 0 \/ k = 0 THEN <<>>
  ELSE <<Digits[((10 * r) \div d) + 1]>> \o FractionDigits((10 * r) % d, d, k - 1)

\* String(sum / length)
DivideToString(sum, length) ==
  IF sum.t # "number" THEN JsString(sum)
  ELSE IF length = 0 THEN IF sum.n = 0 THEN <<"NaN">>
                          ELSE IF sum.n > 0 THEN <<"Infinity">>
                          ELSE <<"-", "Infinity">>
  ELSE LET a == IF sum.n < 0 THEN -sum.n ELSE sum.n
           whole == (IF sum.n < 0 THEN <<"-">> ELSE <<>>) \o NatToString(a \div length)
       IN IF a % length = 0 THEN whole
          ELSE whole \o <<".">> \o FractionDigits(a % length, length, 16)

Fragment == [kind |-> "fragment", operation |-> None, text |-> <<>>]
Strong(operation, result) == [kind |-> "strong", operation |-> operation, text |-> result]
Text(s) == [kind |-> "string", operation |-> None, text |-> s]

\* ColumnAggregator.calculate(rows); nothing in the try block can raise on a
\* rows object, so the catch branch is never taken
aggregatorCalculate(operation, rows) ==
  LET values == ObjectValues(rows)
      max == JsString(ReduceMax(values, NegInf))
      min == JsString(ReduceMin(values, PosInf))
  IN CASE operation = Max ->
            Strong(operation, IF max = <<"-", "Infinity">> THEN <<"NaN">> ELSE max)
       [] operation = Min ->
            Strong(operation, IF min = <<"Infinity">> THEN <<"NaN">> ELSE min)
       [] operation = Sum -> Strong(operation, JsString(ReduceSum(values, Num(0))))
       [] operation = Average ->
            Strong(operation, DivideToString(ReduceSum(values, Num(0)), Len(values)))
       [] OTHER -> Fragment

\* ------------------------------------------------------------- ColumnData
\* rows is a reference: rowsRef = OwnRows is the object the constructor made
\* (kept in ownRows), rowsRef = i is the raw data object data[String(i)]
OwnRows == -1

\* new ColumnData(name, type, id).withCalculation(new ColumnCalculation(
\* expression)).withAggregation(aggregation)
ColumnData(columnName, columnType, expression, aggregation) ==
  [columnName |-> columnName, columnType |-> columnType,
   expression |-> expression,
   expectedVariables |-> extractExpectedVariables(expression),
   variables |-> <<>>,
   aggregation |-> aggregation,
   rowsRef |-> OwnRows, ownRows |-> <<>>]

Put(f, k, v) == [j \in DOMAIN f \cup {k} |-> IF j = k THEN v ELSE f[j]]

\* ColumnData.setRows(rows) with a rows object that is none of this table's
\* raw data objects (a direct call, or an earlier compile() of another table)
setRows(column, rows) == [column EXCEPT !.rowsRef = OwnRows, !.ownRows = rows]

\* this.rows of a column, in a heap whose raw data objects are d
RowsOf(d, column) ==
  IF column.rowsRef = OwnRows THEN column.ownRows ELSE d[column.rowsRef]

\* ColumnData.getValue(rowIndex)
columnGetValue(rows, rowIndex) ==
  IF rowIndex \in DOMAIN rows THEN JsString(rows[rowIndex]) ELSE <<>>

\* ------------------------------------------------------------------ state
VARIABLES
  data,                       \* DataTable.data: column position -> rows object
  columns,                    \* DataTable.columns (position i is columns[i + 1])
  columnNameToIndexMapping,   \* DataTable.columnNameToIndexMapping
  maxRow,                     \* DataTable.maxRow
  isThereColumnAggregations,  \* DataTable.isThereColumnAggregations
  outcome,      \* how the last compile() ended: "none", "returned", "threw"
  nCompiles,    \* compile() calls since the column list last changed
  before,       \* the table as the last compile() found it
  rendered,     \* the grid the last render drew
  calc,         \* a ColumnCalculation on its own
  agg,          \* a ColumnAggregator call on its own
  columnList    \* DynamicTable's columnList state

vars == <<data, columns, columnNameToIndexMapping, maxRow,
          isThereColumnAggregations, outcome, nCompiles, before, rendered,
          calc, agg, columnList>>

\* ---------------------------------------------------------------- inputs
Name(c) == <<c>>
SumAB == <<"#", "A", "#", "+", "#", "B", "#">>
OnePlusD == <<"1", "+", "#", "D", "#">>
TwiceA == <<"2", "*", "#", "A", "#">>
Inherited == <<"#", "constructor", "#">>

\* the rows a column object was given before it was added to this table
HeldRows == (0 :> Num(9))

\* the columns the caller adds: freshly constructed ones, and a column object
\* that comes with rows from an earlier setRows
ColumnChoices ==
  { ColumnData(Name("A"), "data", <<>>, None),
    ColumnData(Name("B"), "data", <<>>, None),
    ColumnData(Name("B"), "time", <<>>, Max),
    ColumnData(Name("C"), "calculated", SumAB, None),
    ColumnData(Name("C"), "calculated", OnePlusD, Max),
    ColumnData(Name("D"), "calculated", TwiceA, Max),
    ColumnData(Name("D"), "calculated", OnePlusD, None),
    ColumnData(Name("C"), "calculated", Inherited, None),
    setRows(ColumnData(Name("A"), "data", <<>>, Sum), HeldRows) }

RawDataChoices ==
  { (0 :> (0 :> Num(10) @@ 1 :> Num(20))) @@ (1 :> (0 :> Num(100) @@ 1 :> Num(200))),
    (0 :> (1 :> Num(2))) @@ (1 :> (0 :> Num(3) @@ 1 :> Num(4))),
    (0 :> (0 :> Str(<<"x">>))) @@ (1 :> (0 :> Num(5))) @@ (2 :> (0 :> Num(7) @@ 1 :> Num(8))),
    <<>>,
    (1 :> (0 :> Str(<<"6">>) @@ 2 :> Num(1))) @@ (4 :> (3 :> Num(9))) }

\* -------------------------------------------------------------- DataTable
\* updateColumnNameToIndexMapping: a later column of the same name wins
RECURSIVE BuildMapping(_, _, _)
BuildMapping(cols, mapping, i) ==
  IF i > Len(cols) THEN mapping
  ELSE BuildMapping(cols, Put(mapping, cols[i].columnName, Num(i - 1)), i + 1)

updateColumnNameToIndexMapping(cols) == BuildMapping(cols, <<>>, 1)

\* this.columns[columnIndex] for whatever the mapping lookup returned
ValidIndex(cols, columnIndex) ==
  columnIndex.t = "number" /\ columnIndex.n \in 0..(Len(cols) - 1)

\* getCalculationVariables(rowIndex, column) on the table st with the
\* expected variables still to visit: [threw, variables].  A lookup that is
\* not undefined and indexes no column raises a TypeError (getValue of
\* undefined), outside every try block
RECURSIVE CollectVariables(_, _, _, _)
CollectVariables(st, rowIndex, names, variables) ==
  IF names = {} THEN [threw |-> FALSE, variables |-> variables]
  ELSE LET columnName == CHOOSE n \in names : TRUE
           columnIndex == Lookup(st.mapping, columnName)
       IN IF columnIndex.t = "undefined"
          THEN CollectVariables(st, rowIndex, names \ {columnName}, variables)
          ELSE IF ~ValidIndex(st.columns, columnIndex)
          THEN [threw |-> TRUE, variables |-> variables]
          ELSE CollectVariables(st, rowIndex, names \ {columnName},
                 Put(variables, columnName,
                     Str(columnGetValue(RowsOf(st.data, st.columns[columnIndex.n + 1]),
                                        rowIndex))))

\* mutant of getCalculationVariables: every row reads the siblings' row 0
getCalculationVariablesOfRowZero(st, rowIndex, column) ==
  CollectVariables(st, 0, column.expectedVariables, <<>>)

getCalculationVariables(st, rowIndex, column) ==
  CollectVariables(st, rowIndex, column.expectedVariables, <<>>)

\* ColumnData.fillCalculatedRow(rowIndex, variables) on column c (1-based) of
\* st: the write goes to whatever object this.rows refers to
fillCalculatedRow(st, c, rowIndex, variables) ==
  LET column == st.columns[c]
      value == Str(calculate(column.expression, variables))
  IN IF column.rowsRef = OwnRows
     THEN [st EXCEPT !.columns[c].variables = variables,
                     !.columns[c].ownRows = Put(@, rowIndex, value)]
     ELSE [st EXCEPT !.columns[c].variables = variables,
                     !.data[column.rowsRef] = Put(@, rowIndex, value)]

\* mutant of RowKeyMax: the number of rows instead of the highest row index
RowKeyCount(rows) == Cardinality(DOMAIN rows)

\* compile(), first loop: bind raw data to positions and find maxRow
RowKeyMax(rows) ==
  IF DOMAIN rows = {} THEN 0
  ELSE LET top == CHOOSE k \in DOMAIN rows : \A j \in DOMAIN rows : j <= k
       IN IF top > 0 THEN top ELSE 0

RECURSIVE AssignRows(_, _)
AssignRows(st, c) ==
  IF c > Len(st.columns) THEN st
  ELSE IF (c - 1) \in DOMAIN st.data
  THEN LET newMaxRow == RowKeyMax(st.data[c - 1])
       IN AssignRows([st EXCEPT !.columns[c].rowsRef = c - 1,
                                !.maxRow = IF newMaxRow > @ THEN newMaxRow ELSE @],
                     c + 1)
  ELSE AssignRows(st, c + 1)

\* compile(), second loop: the rows r.. of calculated column c
RECURSIVE FillRows(_, _, _)
FillRows(st, c, r) ==
  IF st.threw \/ r > st.maxRow THEN st
  ELSE LET got == getCalculationVariables(st, r, st.columns[c])
       IN IF got.threw THEN [st EXCEPT !.threw = TRUE]
          ELSE FillRows(fillCalculatedRow(st, c, r, got.variables), c, r + 1)

\* mutant of FillColumns: the columns are filled from the last to the first
RECURSIVE FillColumnsBackwards(_, _)
FillColumnsBackwards(st, c) ==
  IF st.threw \/ c > Len(st.columns) THEN st
  ELSE LET k == Len(st.columns) - c + 1
           flagged == IF st.columns[k].aggregation # None
                      THEN [st EXCEPT !.isThereColumnAggregations = TRUE]
                      ELSE st
       IN FillColumnsBackwards(IF st.columns[k].columnType = "calculated"
                               THEN FillRows(flagged, k, 0) ELSE flagged,
                               c + 1)

RECURSIVE FillColumns(_, _)
FillColumns(st, c) ==
  IF st.threw \/ c > Len(st.columns) THEN st
  ELSE LET flagged == IF st.columns[c].aggregation # None
                      THEN [st EXCEPT !.isThereColumnAggregations = TRUE]
                      ELSE st
       IN FillColumns(IF st.columns[c].columnType = "calculated"
                      THEN FillRows(flagged, c, 0) ELSE flagged,
                      c + 1)

\* DataTable.compile() on the table st
compile(st) ==
  FillColumns([AssignRows([st EXCEPT !.maxRow = 0], 1)
                 EXCEPT !.isThereColumnAggregations = FALSE], 1)

\* mutant of tableGetValue: the aggregation row starts at maxRow itself
tableGetValueFromMaxRow(st, rowIndex, columnIndex) ==
  IF columnIndex \notin 0..(Len(st.columns) - 1)
  THEN [threw |-> TRUE, value |-> Fragment]
  ELSE LET column == st.columns[columnIndex + 1]
       IN IF rowIndex >= st.maxRow
          THEN [threw |-> FALSE,
                value |-> aggregatorCalculate(column.aggregation, RowsOf(st.data, column))]
          ELSE [threw |-> FALSE,
                value |-> Text(columnGetValue(RowsOf(st.data, column), rowIndex))]

\* DataTable.getValue(rowIndex, columnIndex): [threw, value]
tableGetValue(st, rowIndex, columnIndex) ==
  IF columnIndex \notin 0..(Len(st.columns) - 1)
  THEN [threw |-> TRUE, value |-> Fragment]
  ELSE LET column == st.columns[columnIndex + 1]
       IN IF rowIndex > st.maxRow
          THEN [threw |-> FALSE,
                value |-> aggregatorCalculate(column.aggregation, RowsOf(st.data, column))]
          ELSE [threw |-> FALSE,
                value |-> Text(columnGetValue(RowsOf(st.data, column), rowIndex))]

\* DataTable.getRowsToRender()
getRowsToRender(st) ==
  IF st.isThereColumnAggregations THEN st.maxRow + 2 ELSE st.maxRow + 1

\* the table object held in the variables
Table ==
  [data |-> data, columns |-> columns, mapping |-> columnNameToIndexMapping,
   maxRow |-> maxRow, isThereColumnAggregations |-> isThereColumnAggregations,
   threw |-> FALSE]

\* cellRenderer over the numRows x columns grid the table widget draws
Grid(st) ==
  [numRows |-> getRowsToRender(st),
   cells |-> [r \in 0..(getRowsToRender(st) - 1), c \in 0..(Len(st.columns) - 1) |->
                tableGetValue(st, r, c).value]]

NoGrid == [numRows |-> 0, cells |-> <<>>]

\* what the read interface returns on st: maxRow, getRowsToRender() and
\* getValue over every column and the rows 0..maxRow + 1
View(st) ==
  [maxRow |-> st.maxRow, rowsToRender |-> getRowsToRender(st),
   cells |-> [r \in 0..(st.maxRow + 1), c \in 0..(Len(st.columns) - 1) |->
                tableGetValue(st, r, c).value]]

NoTable ==
  [valid |-> FALSE, outcome |-> "none",
   table |-> [data |-> <<>>, columns |-> <<>>, mapping |-> <<>>, maxRow |-> 0,
              isThereColumnAggregations |-> FALSE, threw |-> FALSE]]

NotReplaced == [threw |-> FALSE, s |-> <<>>]
IdleCalc == [expression |-> <<>>, expectedVariables |-> {}, variables |-> <<>>,
             replaced |-> NotReplaced, state |-> "idle"]
IdleAgg == [operation |-> None, rows |-> <<>>, display |-> Fragment, state |-> "idle"]

\* ---------------------------------------------------------------- actions
\* new DataTable(data)
Init ==
  /\ data \in RawDataChoices
  /\ columns = <<>>
  /\ columnNameToIndexMapping = <<>>
  /\ maxRow = 0
  /\ isThereColumnAggregations = FALSE
  /\ outcome = "none"
  /\ nCompiles = 0
  /\ before = NoTable
  /\ rendered = NoGrid
  /\ calc = IdleCalc
  /\ agg = IdleAgg
  /\ columnList = <<>>

\* addColumns([column]) with a freshly constructed column
AddColumns ==
  \E column \in ColumnChoices :
    /\ Len(columns) < MaxCols
    /\ columns' = Append(columns, column)
    /\ columnNameToIndexMapping' = updateColumnNameToIndexMapping(columns')
    /\ nCompiles' = 0
    /\ before' = NoTable
    /\ rendered' = NoGrid
    /\ UNCHANGED <<data, maxRow, isThereColumnAggregations, outcome, calc, agg,
                   columnList>>

\* compile(), run to its return or to the exception that leaves it
Compile ==
  /\ nCompiles < MaxCompiles
  /\ \E st \in {compile(Table)} :
     /\ data' = st.data
     /\ columns' = st.columns
     /\ maxRow' = st.maxRow
     /\ isThereColumnAggregations' = st.isThereColumnAggregations
     /\ outcome' = IF st.threw THEN "threw" ELSE "returned"
     /\ nCompiles' = nCompiles + 1
     /\ before' = [valid |-> TRUE, outcome |-> outcome, table |-> Table]
     /\ rendered' = NoGrid
     /\ UNCHANGED <<columnNameToIndexMapping, calc, agg, columnList>>

\* the render that follows a compile() that returned
Render ==
  /\ outcome = "returned"
  /\ rendered = NoGrid
  /\ rendered' = Grid(Table)
  /\ UNCHANGED <<data, columns, columnNameToIndexMapping, maxRow,
                 isThereColumnAggregations, outcome, nCompiles, before, calc, agg,
                 columnList>>

Next == AddColumns \/ Compile \/ Render

Spec == Init /\ [][Next]_vars

\* ------------------------------------------- ColumnCalculation on its own
CalcAlphabet == {"#", "A", "B", "\n"}
ExpressionStrings == UNION {[1..n -> CalcAlphabet] : n \in 0..MaxExprLen}

IdleTable ==
  /\ data = <<>>
  /\ columns = <<>>
  /\ columnNameToIndexMapping = <<>>
  /\ maxRow = 0
  /\ isThereColumnAggregations = FALSE
  /\ outcome = "none"
  /\ nCompiles = 0
  /\ before = NoTable
  /\ rendered = NoGrid

tableVars == <<data, columns, columnNameToIndexMapping, maxRow,
               isThereColumnAggregations, outcome, nCompiles, before, rendered>>

InitCalc ==
  /\ IdleTable
  /\ agg = IdleAgg
  /\ columnList = <<>>
  /\ \E e \in ExpressionStrings : calc = [IdleCalc EXCEPT !.expression = e, !.state = "new"]

\* new ColumnCalculation(expression)
Construct ==
  /\ calc.state = "new"
  /\ calc' = [calc EXCEPT !.variables = <<>>,
                          !.expectedVariables = extractExpectedVariables(calc.expression),
                          !.state = "constructed"]
  /\ UNCHANGED <<tableVars, agg, columnList>>

\* withVariables(variables), the map holding some of the expected names
WithVariables ==
  /\ calc.state = "constructed"
  /\ \E given \in SUBSET calc.expectedVariables :
       calc' = [calc EXCEPT !.variables = [n \in given |-> Str(<<"7">>)],
                            !.state = "ready"]
  /\ UNCHANGED <<tableVars, agg, columnList>>

\* replaceExpressionVariables()
ReplaceExpressionVariables ==
  /\ calc.state = "ready"
  /\ calc' = [calc EXCEPT !.replaced =
                            replaceExpressionVariables(calc.expression, calc.variables),
                          !.state = "replaced"]
  /\ UNCHANGED <<tableVars, agg, columnList>>

NextCalc == Construct \/ WithVariables \/ ReplaceExpressionVariables

SpecCalc == InitCalc /\ [][NextCalc]_vars

\* -------------------------------------------- ColumnAggregator on its own
AggValues ==
  {Num(3), Num(-5), Str(<<"7">>), Str(<<>>), Str(ERROR),
   Str(<<"Infinity">>), Str(<<"-", "Infinity">>)}
AggRowChoices ==
  UNION {[keys -> AggValues] : keys \in SUBSET (0..(MaxAggRows - 1))}

InitAgg ==
  /\ IdleTable
  /\ calc = IdleCalc
  /\ columnList = <<>>
  /\ \E operation \in ColumnAggregations, rows \in AggRowChoices :
       agg = [operation |-> operation, rows |-> rows, display |-> Fragment,
              state |-> "new"]

\* new ColumnAggregator(operation).calculate(rows)
AggregatorCalculate ==
  /\ agg.state = "new"
  /\ agg' = [agg EXCEPT !.display = aggregatorCalculate(agg.operation, agg.rows),
                        !.state = "done"]
  /\ UNCHANGED <<tableVars, calc, columnList>>

NextAgg == AggregatorCalculate

SpecAgg == InitAgg /\ [][NextAgg]_vars

\* ------------------------------------------- the caller's column list
\* the exported initial columns
InitialColumns ==
  << ColumnData(Name("Time"), "time", <<>>, None),
     ColumnData(Name("Cell Density"), "data", <<>>, None),
     ColumnData(Name("Volume"), "data", <<>>, None) >>

\* what the dialogs' name and expression inputs can hold
NameChoices == {<<>>, Name("Time"), Name("Total")}
ExpressionChoices == {<<>>, <<"#", "Volume", "#">>, <<"1">>}
AggregationChoices == {None, Sum}

\* useState<ColumnData[]>(columns)
InitList ==
  /\ IdleTable
  /\ calc = IdleCalc
  /\ agg = IdleAgg
  /\ columnList = InitialColumns

\* NewColumnDialog's Confirm button exists only when the name and the
\* expression are not empty; handleNewColumn appends the new column
handleNewColumn ==
  \E name \in NameChoices, expression \in ExpressionChoices,
     aggregation \in AggregationChoices :
    /\ Len(columnList) < MaxListLen
    /\ name # <<>> /\ expression # <<>>
    /\ columnList' = Append(columnList,
                            ColumnData(name, "calculated", expression, aggregation))
    /\ UNCHANGED <<tableVars, calc, agg>>

\* columnList.findIndex((column) => column.columnName === oldName)
findIndex(list, oldName) ==
  CHOOSE i \in 1..Len(list) :
    /\ list[i].columnName = oldName
    /\ \A j \in 1..(i - 1) : list[j].columnName # oldName

\* EditColumnDialog's Confirm button exists once a column is selected (an
\* option whose value is not empty); the name input is free, the expression
\* input is shown for calculated columns only and otherwise keeps the
\* selected column's expression; handleColumnEdit replaces the first column
\* named oldName and keeps its type
handleColumnEdit ==
  \E oldName \in {columnList[i].columnName : i \in 1..Len(columnList)} \ {<<>>},
     newName \in NameChoices, newExpression \in ExpressionChoices,
     aggregation \in AggregationChoices :
    LET editedColumnIndex == findIndex(columnList, oldName)
        edited == columnList[editedColumnIndex]
    IN /\ edited.columnType # "calculated" => newExpression = edited.expression
       /\ columnList' = [columnList EXCEPT ![editedColumnIndex] =
                           ColumnData(newName, edited.columnType, newExpression,
                                      aggregation)]
       /\ UNCHANGED <<tableVars, calc, agg>>

NextList == handleNewColumn \/ handleColumnEdit

SpecList == InitList /\ [][NextList]_vars

\* ================================================================= claims
\* a compile() has returned and the column list has not changed since
Compiled == nCompiles >= 1 /\ outcome = "returned"
Positions == 0..(Len(columns) - 1)
Col(c) == columns[c + 1]
IsCalculated(c) == Col(c).columnType = "calculated"
Cell(r, c) == tableGetValue(Table, r, c).value

\* the position of the column a name stands for (the last one of that name),
\* -1 when no column has the name
LastNamed(n) ==
  IF \E c \in Positions : Col(c).columnName = n
  THEN CHOOSE c \in Positions :
         /\ Col(c).columnName = n
         /\ \A d \in Positions : Col(d).columnName = n => d <= c
  ELSE -1

IsNumeric(v) == v.t = "number" \/ (v.t = "string" /\ AllDigits(v.s))

\* name n stands for a non-calculated column holding a number at row r
NumericSibling(n, r) ==
  /\ LastNamed(n) >= 0
  /\ ~IsCalculated(LastNamed(n))
  /\ r \in DOMAIN RowsOf(data, Col(LastNamed(n)))
  /\ IsNumeric(RowsOf(data, Col(LastNamed(n)))[r])

\* the expression read left to right, every #Name# written as the value its
\* column holds at row r
RECURSIVE WithSiblingValues(_, _, _)
WithSiblingValues(expression, i, r) ==
  IF i > Len(expression) THEN <<>>
  ELSE IF expression[i] = "#" /\ FirstMarker(expression, i + 1) > 0
  THEN LET j == FirstMarker(expression, i + 1)
           sibling == Col(LastNamed(SubSeq(expression, i + 1, j - 1)))
       IN JsString(RowsOf(data, sibling)[r]) \o WithSiblingValues(expression, j + 1, r)
  ELSE <<expression[i]>> \o WithSiblingValues(expression, i + 1, r)

ExpectedResult(expression, r) ==
  LET result == mathEvaluate(WithSiblingValues(expression, 1, r))
  IN IF result.threw \/ result.v.t = "undefined" THEN ERROR ELSE JsString(result.v)

AllNumericSiblings(c, r) ==
  \A n \in Col(c).expectedVariables : NumericSibling(n, r)

\* C1: after compile() has returned, a calculated column whose expected
\* variables all stand for non-calculated columns holding a number at row r
\* shows at row r the string form of its expression evaluated on those numbers
C1_CalculatedCellIsExpressionValue ==
  Compiled =>
    \A c \in Positions, r \in 0..maxRow :
      (IsCalculated(c) /\ AllNumericSiblings(c, r))
        => Cell(r, c) = Text(ExpectedResult(Col(c).expression, r))

\* C1 witness: Density 10/20, Volume 100/200, Total = 110/220
C1_Witness ==
  /\ Compiled
  /\ Len(columns) = 3
  /\ IsCalculated(2)
  /\ Col(2).expectedVariables = {Name("A"), Name("B")}
  /\ AllNumericSiblings(2, 0) /\ AllNumericSiblings(2, 1)
  /\ Cell(0, 2) = Text(<<"1", "1", "0">>)
  /\ Cell(1, 2) = Text(<<"2", "2", "0">>)

\* a second compile() has returned on the table the first one left
Recompiled ==
  Compiled /\ nCompiles >= 2 /\ before.valid /\ before.outcome = "returned"

\* C2: compile() is idempotent: a second compile() on unchanged columns and
\* raw data leaves maxRow, getRowsToRender() and every getValue(row, column)
\* as the first one left them
C2_CompileIdempotent == Recompiled => View(Table) = View(before.table)

\* C3: a calculated cell that is "ERROR" after a compile() is still "ERROR"
\* after a further compile() on unchanged columns and raw data
C3_ErrorCellStays ==
  Recompiled =>
    \A c \in Positions, r \in 0..maxRow :
      (IsCalculated(c) /\ tableGetValue(before.table, r, c).value = Text(ERROR))
        => Cell(r, c) = Text(ERROR)

\* the rows column s held when the last compile() read them for a column at
\* position c: a non-calculated column's rows, or the rows a calculated column
\* at or after c had before this pass filled them
RowsWhenRead(s) ==
  IF ~IsCalculated(s) THEN RowsOf(data, Col(s))
  ELSE IF s \in DOMAIN before.table.data THEN before.table.data[s]
  ELSE before.table.columns[s + 1].ownRows

HadNoValue(n, c, r) ==
  /\ LastNamed(n) >= 0
  /\ ~IsCalculated(LastNamed(n)) \/ LastNamed(n) >= c
  /\ r \notin DOMAIN RowsWhenRead(LastNamed(n))

\* C4: after compile() has returned, a calculated cell at row r is "ERROR"
\* whenever one of its expected variables names an existing column that had
\* no value at row r when the cell was computed
C4_MissingValueIsError ==
  Compiled =>
    \A c \in Positions, r \in 0..maxRow :
      (IsCalculated(c) /\ \E n \in Col(c).expectedVariables : HadNoValue(n, c, r))
        => Cell(r, c) = Text(ERROR)

\* C5: once compile() has been called, a calculated column whose expression
\* references a name no column has holds "ERROR" at every row 0..maxRow, the
\* name being left out of the variable map
C5_UnknownNameIsError ==
  nCompiles >= 1 =>
    \A c \in Positions :
      (IsCalculated(c) /\ \E n \in Col(c).expectedVariables : LastNamed(n) = -1)
        => /\ \A n \in Col(c).expectedVariables :
                LastNamed(n) = -1 => n \notin DOMAIN Col(c).variables
           /\ \A r \in 0..maxRow : Cell(r, c) = Text(ERROR)

\* C6: no engine operation raises: compile() returns, and getValue(rowIndex,
\* columnIndex) returns for every pair of indices
C6_NeverRaises ==
  /\ nCompiles >= 1 => outcome = "returned"
  /\ \A r \in -1..(maxRow + 2), c \in -1..MaxCols : ~tableGetValue(Table, r, c).threw

\* the highest row index of the raw data bound to the positions in slots
HighestRow(slots) ==
  LET keys == UNION {DOMAIN data[i] : i \in slots \cap DOMAIN data}
  IN IF keys = {} THEN 0 ELSE CHOOSE k \in keys : \A j \in keys : j <= k

SomeAggregation == \E c \in Positions : Col(c).aggregation # None

RowsToRenderRule ==
  getRowsToRender(Table) = IF SomeAggregation THEN maxRow + 2 ELSE maxRow + 1

\* C7 as stated: after compile() has returned, maxRow is the highest row
\* index populated across all columns of the raw data (0 when there is none)
\* and getRowsToRender() is maxRow + 2 with an aggregation, else maxRow + 1
C7_RowExtentOfAllRawData ==
  Compiled => maxRow = HighestRow(DOMAIN data) /\ RowsToRenderRule

\* C7 amended: after compile() has returned, maxRow is the highest row index
\* populated in the raw data bound to the positions of the table's columns
\* (0 when there is none; raw data at positions beyond the column list is not
\* looked at), and getRowsToRender() is maxRow + 2 with an aggregation, else
\* maxRow + 1
C7_RowExtentOfBoundRawData ==
  Compiled => maxRow = HighestRow(Positions) /\ RowsToRenderRule

\* C7 witness: rows {0, 2} under two columns, one aggregated: 4 rows to render
C7_Witness ==
  /\ Compiled
  /\ maxRow = 2
  /\ SomeAggregation
  /\ rendered # NoGrid /\ rendered.numRows = 4
  /\ HighestRow(DOMAIN data) = 3

\* C8: on a compiled table getValue(rowIndex, columnIndex) is the column's
\* aggregation display exactly when rowIndex > maxRow and the column's stored
\* value as a string (empty when unset) exactly when rowIndex <= maxRow; the
\* extra row of getRowsToRender() always draws aggregations
C8_AggregationRowBeyondMaxRow ==
  Compiled =>
    /\ \A c \in Positions, r \in 0..(maxRow + 2) :
         LET rows == RowsOf(data, Col(c))
         IN IF r > maxRow
            THEN /\ Cell(r, c).kind \in {"strong", "fragment"}
                 /\ Cell(r, c) = aggregatorCalculate(Col(c).aggregation, rows)
                 /\ Cell(r, c).kind = "strong" <=> Col(c).aggregation # None
            ELSE /\ Cell(r, c).kind = "string"
                 /\ Cell(r, c).text = IF r \in DOMAIN rows THEN JsString(rows[r]) ELSE <<>>
    /\ rendered # NoGrid =>
         \A c \in Positions, r \in 0..(rendered.numRows - 1) :
           rendered.cells[r, c].kind = "string" <=> r <= maxRow

\* C8 witness: a rendered grid whose last row, maxRow + 1, shows "Max: 200"
\* under a column and whose rows above show stored values
C8_Witness ==
  /\ Compiled
  /\ rendered # NoGrid
  /\ rendered.numRows = maxRow + 2
  /\ maxRow = 1
  /\ \E c \in Positions :
       /\ rendered.cells[maxRow + 1, c] = Strong(Max, <<"2", "0", "0">>)
       /\ rendered.cells[maxRow, c] = Text(<<"2", "0", "0">>)

\* the indices of the "#" markers of an expression, ascending
RECURSIVE MarkerPositions(_, _)
MarkerPositions(expression, i) ==
  IF i > Len(expression) THEN <<>>
  ELSE (IF expression[i] = "#" THEN <<i>> ELSE <<>>) \o MarkerPositions(expression, i + 1)

\* the texts enclosed by the successive pairs of markers: first with second,
\* third with fourth, ...
PairTexts(expression) ==
  LET at == MarkerPositions(expression, 1)
  IN {SubSeq(expression, at[2 * k - 1] + 1, at[2 * k] - 1) : k \in 1..(Len(at) \div 2)}

\* the expression with every successive pair of markers written as "7"
RECURSIVE PairsAsSeven(_, _)
PairsAsSeven(expression, i) ==
  IF i > Len(expression) THEN <<>>
  ELSE IF expression[i] = "#" /\ FirstMarker(expression, i + 1) > 0
  THEN <<"7">> \o PairsAsSeven(expression, FirstMarker(expression, i + 1) + 1)
  ELSE <<expression[i]>> \o PairsAsSeven(expression, i + 1)

Constructed == calc.state \in {"constructed", "ready", "replaced"}

ExtractsPairTexts ==
  /\ Constructed => calc.expectedVariables = PairTexts(calc.expression)
  /\ calc.state = "replaced" =>
       /\ calc.replaced.threw <=>
            \E n \in PairTexts(calc.expression) : n \notin DOMAIN calc.variables
       /\ ~calc.replaced.threw => calc.replaced.s = PairsAsSeven(calc.expression, 1)

\* C9 as stated: extractExpectedVariables returns exactly the distinct texts
\* enclosed by the successive pairs of "#" markers (none without a pair), and
\* replaceExpressionVariables replaces exactly these names
C9_ExtractIsPairTexts == ExtractsPairTexts

NoTerminatorInPairs(expression) ==
  \A n \in PairTexts(expression) : \A k \in 1..Len(n) : n[k] \notin LineTerminators

\* C9 amended: for an expression in which no line terminator stands between
\* the two markers of a pair, extractExpectedVariables returns exactly the
\* distinct texts enclosed by the successive pairs of "#" markers (none
\* without a pair), and replaceExpressionVariables replaces exactly these
\* names
C9_ExtractIsPairTextsOnOneLine ==
  NoTerminatorInPairs(calc.expression) => ExtractsPairTexts

\* C9 witness: "#A##B#" gave {A, B} and was rewritten to "77"
C9_Witness ==
  /\ calc.state = "replaced"
  /\ calc.expression = <<"#", "A", "#", "#", "B", "#">>
  /\ calc.expectedVariables = {<<"A">>, <<"B">>}
  /\ calc.replaced = [threw |-> FALSE, s |-> <<"7", "7">>]

NumericValues(rows) == {ToNumber(rows[k]) : k \in DOMAIN rows} \ {NaN}
Greatest(numbers) == CHOOSE g \in numbers : \A x \in numbers : ~NumGreater(x, g)
Least(numbers) == CHOOSE g \in numbers : \A x \in numbers : ~NumLess(x, g)

\* C10: Max displays the greatest numeric value among the rows and Min the
\* least; on an empty row mapping both display NaN, and Sum displays 0
C10_MaxMinOfRows ==
  agg.state = "done" =>
    /\ (agg.operation = Max /\ NumericValues(agg.rows) # {})
         => agg.display = Strong(Max, JsString(Greatest(NumericValues(agg.rows))))
    /\ (agg.operation = Min /\ NumericValues(agg.rows) # {})
         => agg.display = Strong(Min, JsString(Least(NumericValues(agg.rows))))
    /\ (agg.operation \in {Max, Min} /\ DOMAIN agg.rows = {})
         => agg.display.text = <<"NaN">>
    /\ (agg.operation = Sum /\ DOMAIN agg.rows = {})
         => agg.display = Strong(Sum, <<"0">>)

\* the value column s held at row r before the last compile() began (the
\* empty string when it held none)
ValueBeforePass(s, r) ==
  columnGetValue(RowsOf(before.table.data, before.table.columns[s + 1]), r)

ValueNow(s, r) == columnGetValue(RowsOf(data, Col(s)), r)

\* the variable map of the cell (r, c) under list-order filling: a calculated
\* column placed at or after c gives its value from before the pass, every
\* other column the value it holds now; a name no column has is left out
ListOrderVariables(c, r) ==
  [n \in {m \in Col(c).expectedVariables : LastNamed(m) >= 0} |->
     Str(IF IsCalculated(LastNamed(n)) /\ LastNamed(n) >= c
         THEN ValueBeforePass(LastNamed(n), r)
         ELSE ValueNow(LastNamed(n), r))]

\* C11: within one compile() pass calculated columns are filled in list order,
\* a whole column before the next: a calculated cell is its expression over
\* this pass's values of the calculated columns placed earlier and over the
\* values that the calculated columns placed later, or the column itself, held
\* before the pass (the empty string if never filled)
C11_FilledInListOrder ==
  Compiled =>
    \A c \in Positions, r \in 0..maxRow :
      IsCalculated(c)
        => Cell(r, c) = Text(calculate(Col(c).expression, ListOrderVariables(c, r)))

\* the variable map compile() builds for the cell (r, c): a calculated column
\* at or after c gives the value in the rows this pass bound to it, every
\* other column the value it holds now
BoundVariables(c, r) ==
  [n \in {m \in Col(c).expectedVariables : LastNamed(m) >= 0} |->
     Str(IF IsCalculated(LastNamed(n)) /\ LastNamed(n) >= c
         THEN columnGetValue(RowsWhenRead(LastNamed(n)), r)
         ELSE ValueNow(LastNamed(n), r))]

\* C11 (as the code has it): within one compile() pass calculated columns are
\* filled in list order, a whole column before the next: a calculated cell is
\* its expression over this pass's values of the calculated columns placed
\* earlier and, for a calculated column placed later or the column itself,
\* over the value in the rows the pass bound to it: the raw data of its
\* position when there is some, else what it held before the pass
C11_FilledInListOrderOverBoundRows ==
  Compiled =>
    \A c \in Positions, r \in 0..maxRow :
      IsCalculated(c)
        => Cell(r, c) = Text(calculate(Col(c).expression, BoundVariables(c, r)))

\* C11 witness: [A, C = 1+#D#, D = 2*#A#] compiled twice: C, placed before D,
\* was "ERROR" after the first pass and now shows 1 + the 20 that D held
\* before the second pass
C11_Witness ==
  /\ Recompiled
  /\ Len(columns) = 3
  /\ Col(1).expression = OnePlusD /\ Col(2).expression = TwiceA
  /\ Col(2).columnName = Name("D")
  /\ tableGetValue(before.table, 0, 1).value = Text(ERROR)
  /\ tableGetValue(before.table, 0, 2).value = Text(<<"2", "0">>)
  /\ Cell(0, 1) = Text(<<"2", "1">>)

\* C12: after compile() has returned, a non-calculated column whose position
\* has no entry in the raw data has no rows, whatever rows the column object
\* held before the call: getValue gives the empty string at every row
C12_UnboundColumnHasNoRows ==
  Compiled =>
    \A c \in Positions :
      (~IsCalculated(c) /\ c \notin DOMAIN data)
        => /\ DOMAIN RowsOf(data, Col(c)) = {}
           /\ \A r \in 0..maxRow : Cell(r, c) = Text(<<>>)

\* C13: after every compile(), each calculated column holds at every row
\* 0..maxRow a stored value that is the string result of this pass's
\* evaluation or "ERROR", whatever was stored there before and whatever
\* failed in another column or row
C13_EveryCalculatedCellFilled ==
  nCompiles >= 1 =>
    \A c \in Positions, r \in 0..maxRow :
      IsCalculated(c)
        => /\ r \in DOMAIN RowsOf(data, Col(c))
           /\ RowsOf(data, Col(c))[r]
                = Str(calculate(Col(c).expression, BoundVariables(c, r)))

\* C14: compile() leaves the raw input data as it found it, whatever the
\* column list, and every non-calculated column at a position that has raw
\* data holds exactly that raw data
C14_RawDataUnchanged ==
  (nCompiles >= 1 /\ before.valid) =>
    /\ data = before.table.data
    /\ \A c \in Positions :
         (~IsCalculated(c) /\ c \in DOMAIN data)
           => RowsOf(data, Col(c)) = before.table.data[c]

\* C15: in every state the add-column and edit-column confirmations can
\* reach from the initial column list, the names in the caller's column list
\* are pairwise distinct
C15_ColumnNamesDistinct ==
  \A i, j \in 1..Len(columnList) :
    i # j => columnList[i].columnName # columnList[j].columnName

====
